---- MODULE Spec2Model ----
(***************************************************************************)
(* Model of Imf::InputFile (OpenEXR/IlmImf/ImfInputFile.cpp): the facade   *)
(* that reads scan lines from a scan-line file directly and from a tiled   *)
(* file through bufferedReadPixels and its one-tile-row cache.             *)
(*                                                                         *)
(* Memory is modelled at byte granularity.  A pixel of type t decoded for  *)
(* channel c at (x, y) is the byte sequence Decoded(c, x, y, t); storage   *)
(* that was allocated and never written holds the byte UNINIT.             *)
(***************************************************************************)
EXTENDS Integers, Sequences, FiniteSets, TLC

\* ------------------------------------------------------------------------
\* Bounds of the model: the image geometry and the length of a session.
\* ------------------------------------------------------------------------
DwMinY == 1
TileYSize == 2
DwMinX == 1
TileXSize == 1
MaxOps == 3
MaxFaults == 1
MaxLongOps == 5

\* the data window: two rows of tiles and two tiles a row, the last row
\* one scan line high and the last tile one pixel wide
DwMaxY == DwMinY + TileYSize
DwMaxX == DwMinX + TileXSize

DwY == DwMinY .. DwMaxY
DwX == DwMinX .. DwMaxX

\* scan-line arguments a caller may pass: the data window and one line
\* outside it on either side
ScanLineArgs == (DwMinY - 1) .. (DwMaxY + 1)

UNINIT == <<"uninit">>
GARBAGE == <<"garbage">>

\* ------------------------------------------------------------------------
\* Pixel types, slices and frame buffers
\* ------------------------------------------------------------------------
Min(a, b) == IF a <= b THEN a ELSE b
Max(a, b) == IF a >= b THEN a ELSE b

\* size in bytes of one pixel of a type; 0 for a value outside the enum
pixelTypeSize(t) ==
    CASE t = "UINT" -> 4
      [] t = "HALF" -> 2
      [] t = "FLOAT" -> 4
      [] OTHER -> 0

\* the file's channel list: name -> pixel type
HeaderChannels == ("A" :> "HALF")

\* channel names in the iteration order of FrameBuffer (a map sorted by name)
ChannelOrder == <<"A", "B">>

\* A slice: its type and its base.  kind "user" is caller memory (the region
\* of that channel name); kind "heap" is block blk, with the base pointer
\* moved back by off elements from the start of the block, so that
\* base + off elements is the start of the block.
UserSlice(t) == [type |-> t, kind |-> "user", blk |-> 0, off |-> 0]
HeapSlice(t, b, o) == [type |-> t, kind |-> "heap", blk |-> b, off |-> o]

EmptyFrameBuffer == [c \in {} |-> UserSlice("HALF")]

\* the frame buffers a caller installs in this model
FbA == ("A" :> UserSlice("HALF"))
FbAFloat == ("A" :> UserSlice("FLOAT"))
FbAB == ("A" :> UserSlice("HALF")) @@ ("B" :> UserSlice("UINT"))
FbBadType == ("A" :> UserSlice("HALF")) @@ ("B" :> UserSlice("BAD"))
UserFrameBuffers == {EmptyFrameBuffer, FbA, FbAFloat, FbAB, FbBadType}

\* names of a frame buffer in iteration order
RECURSIVE NamesFrom(_, _)
NamesFrom(fb, k) ==
    IF k > Len(ChannelOrder) THEN <<>>
    ELSE (IF ChannelOrder[k] \in DOMAIN fb THEN <<ChannelOrder[k]>> ELSE <<>>)
         \o NamesFrom(fb, k + 1)
Names(fb) == NamesFrom(fb, 1)

\* ------------------------------------------------------------------------
\* Tile geometry of level 0 (TiledInputFile queries)
\* ------------------------------------------------------------------------
levelWidth == DwMaxX - DwMinX + 1
tileYSize == TileYSize
numXTiles == (levelWidth + TileXSize - 1) \div TileXSize
numYTiles == (DwMaxY - DwMinY + TileYSize) \div TileYSize
TileRows == 0 .. (numYTiles - 1)

\* dataWindowForTile(dx, dy, 0), clipped to the level's data window
TileMinX(dx) == DwMinX + dx * TileXSize
TileMaxX(dx) == Min(TileMinX(dx) + TileXSize - 1, DwMaxX)
TileMinY(dy) == DwMinY + dy * TileYSize
TileMaxY(dy) == Min(TileMinY(dy) + TileYSize - 1, DwMaxY)

\* the bytes the file holds for channel c at (x, y), converted to type t;
\* a channel that is not in the file is filled with a fill value
Decoded(c, x, y, t) ==
    IF c \in DOMAIN HeaderChannels
    THEN [k \in 1 .. pixelTypeSize(t) |-> <<c, x, y, t, k>>]
    ELSE [k \in 1 .. pixelTypeSize(t) |-> <<"fill", t, k>>]


\* ------------------------------------------------------------------------
\* Memory: caller memory and the heap blocks of the cache
\* ------------------------------------------------------------------------
MaxPixelSize == Max(pixelTypeSize("HALF"), Max(pixelTypeSize("UINT"), pixelTypeSize("FLOAT")))

\* caller memory of one channel: MaxPixelSize bytes per pixel of the data
\* window (a caller slice of a narrower type uses the first bytes of each)
FreshUserRegion == [y \in DwY |-> [x \in DwX |-> [k \in 1 .. MaxPixelSize |-> <<"init">>]]]
FreshUser == [c \in {ChannelOrder[n] : n \in DOMAIN ChannelOrder} |-> FreshUserRegion]

BlockIds == 1 .. Len(ChannelOrder)
FreeBlock == [live |-> FALSE, data |-> <<>>]
FreshHeap == [b \in BlockIds |-> FreeBlock]

\* the number of pixels in a row of tiles
tileRowSize == levelWidth * tileYSize

\* 1-based index in a block of byte i (from 0) of the pixel at (x, y), seen
\* through a slice of type t whose base was moved back by off elements
ByteIndex(t, off, x, y, i) == (y * levelWidth + x - off) * pixelTypeSize(t) + i + 1

\* the pixel and byte a 1-based block index stands for
ElemOf(t, n) == (n - 1) \div pixelTypeSize(t)
ByteOf(t, n) == (n - 1) % pixelTypeSize(t)
PixelY(off, e) == (e + off - DwMinX) \div levelWidth
PixelX(off, e) == ((e + off - DwMinX) % levelWidth) + DwMinX

\* ------------------------------------------------------------------------
\* The cached frame buffer pointer: "null", "live" (points to a FrameBuffer
\* object) or "freed" (the object was deleted and the pointer kept)
\* ------------------------------------------------------------------------
NullBuffer == [ptr |-> "null", slices |-> EmptyFrameBuffer]

\* Undefined behaviour: the process aborts, or goes on
Ub(st, crash) ==
    IF crash THEN [st EXCEPT !.status = "crash", !.ub = TRUE]
    ELSE [st EXCEPT !.ub = TRUE]

\* delete [] of every slice's storage, then delete of the FrameBuffer object
\* (the pointer itself is left as it is)
SliceDeletable(st, s) ==
    \/ pixelTypeSize(s.type) = 0
    \/ s.kind = "heap" /\ s.off = st.offset /\ st.heap[s.blk].live

DeleteCachedBuffer(st, crash) ==
    IF st.status # "run" \/ st.cachedBuffer.ptr = "null" THEN st
    ELSE IF st.cachedBuffer.ptr = "freed" THEN Ub(st, crash)
    ELSE LET sl == st.cachedBuffer.slices
             bad == \E c \in DOMAIN sl : ~SliceDeletable(st, sl[c])
             gone == {sl[c].blk : c \in {d \in DOMAIN sl : pixelTypeSize(sl[d].type) > 0}}
             st1 == [st EXCEPT !.heap = [b \in BlockIds |-> IF b \in gone THEN FreeBlock ELSE @[b]],
                               !.cachedBuffer = [@ EXCEPT !.ptr = "freed"]]
         IN IF bad THEN Ub(st1, crash) ELSE st1


\* ------------------------------------------------------------------------
\* Faults a call can meet: operator new failing for the cache's FrameBuffer
\* ("fb") or for the storage of the idx-th channel ("arr"), and readTile
\* failing for tile idx ("tile"), each while tile row `row` is filled
\* ------------------------------------------------------------------------
NoFault == [kind |-> "none", row |-> 0, idx |-> 0]
Faults ==
    {NoFault}
    \cup [kind : {"fb"}, row : TileRows, idx : {0}]
    \cup [kind : {"arr"}, row : TileRows, idx : DOMAIN ChannelOrder]
    \cup [kind : {"tile"}, row : TileRows, idx : 0 .. (numXTiles - 1)]

\* new FrameBuffer, then one array of tileRowSize pixels per slice of the
\* caller's frame buffer, in the order of its names
RECURSIVE AllocSlices(_, _, _, _, _)
AllocSlices(st, oldBuffer, n, j, fault) ==
    IF st.status # "run" \/ n > Len(Names(oldBuffer)) THEN st
    ELSE LET name == Names(oldBuffer)[n]
             t == oldBuffer[name].type
             b == CHOOSE f \in BlockIds :
                      /\ ~st.heap[f].live
                      /\ \A g \in BlockIds : ~st.heap[g].live => f <= g
             fresh == [live |-> TRUE,
                       data |-> [m \in 1 .. (tileRowSize * pixelTypeSize(t)) |-> UNINIT]]
         IN IF pixelTypeSize(t) = 0
            THEN [st EXCEPT !.status = "ArgExc"]
            ELSE IF fault.kind = "arr" /\ fault.row = j /\ fault.idx = n
            THEN [st EXCEPT !.status = "bad_alloc"]
            ELSE AllocSlices(
                   [st EXCEPT !.heap[b] = fresh,
                              !.cachedBuffer.slices = (name :> HeapSlice(t, b, st.offset)) @@ @],
                   oldBuffer, n + 1, j, fault)

\* a fill that does not record which tile row the cache holds
NewCachedBufferRowForgotten(st, oldBuffer, j, fault) ==
    IF st.status # "run" THEN st
    ELSE IF fault.kind = "fb" /\ fault.row = j
    THEN [st EXCEPT !.status = "bad_alloc"]
    ELSE AllocSlices(
           [st EXCEPT !.cachedBuffer = [ptr |-> "live", slices |-> EmptyFrameBuffer],
                      !.offset = TileMinY(j) * levelWidth + TileMinX(0)],
           oldBuffer, 1, j, fault)

NewCachedBuffer(st, oldBuffer, j, fault) ==
    IF st.status # "run" THEN st
    ELSE IF fault.kind = "fb" /\ fault.row = j
    THEN [st EXCEPT !.status = "bad_alloc"]
    ELSE AllocSlices(
           [st EXCEPT !.cachedBuffer = [ptr |-> "live", slices |-> EmptyFrameBuffer],
                      !.cachedTileY = j,
                      !.offset = TileMinY(j) * levelWidth + TileMinX(0)],
           oldBuffer, 1, j, fault)

\* TiledInputFile::setFrameBuffer
InstallOnTiledDecoder(st, fb) ==
    IF st.status # "run" THEN st ELSE [st EXCEPT !.tfb = fb]

\* TiledInputFile::readTile (dx, dy, 0): the pixels of the tile, converted to
\* each slice's type, stored through the installed slices
TileBlock(blk, c, s, dx, dy) ==
    [blk EXCEPT !.data =
        [m \in DOMAIN blk.data |->
            LET e == ElemOf(s.type, m)
                x == PixelX(s.off, e)
                y == PixelY(s.off, e)
            IN IF /\ x >= TileMinX(dx) /\ x <= TileMaxX(dx)
                  /\ y >= TileMinY(dy) /\ y <= TileMaxY(dy)
               THEN Decoded(c, x, y, s.type)[ByteOf(s.type, m) + 1]
               ELSE blk.data[m]]]

readTile(st, dx, dy) ==
    [st EXCEPT
       !.heap = [b \in BlockIds |->
                   IF \E c \in DOMAIN st.tfb : st.tfb[c].kind = "heap" /\ st.tfb[c].blk = b
                   THEN LET c == CHOOSE d \in DOMAIN st.tfb :
                                     st.tfb[d].kind = "heap" /\ st.tfb[d].blk = b
                        IN TileBlock(@[b], c, st.tfb[c], dx, dy)
                   ELSE @[b]],
       !.tiles = Append(@, <<dx, dy>>),
       !.events = Append(@, <<"tile", dy, dx>>)]

\* a fill that reads the first tile of the row only
ReadTileRowFirstOnly(st, i, j, fault) ==
    IF st.status # "run" \/ i >= 1 THEN st
    ELSE IF fault.kind = "tile" /\ fault.row = j /\ fault.idx = i
    THEN [st EXCEPT !.status = "IoExc"]
    ELSE readTile(st, i, j)

RECURSIVE ReadTileRow(_, _, _, _)
ReadTileRow(st, i, j, fault) ==
    IF st.status # "run" \/ i >= numXTiles THEN st
    ELSE IF fault.kind = "tile" /\ fault.row = j /\ fault.idx = i
    THEN [st EXCEPT !.status = "IoExc"]
    ELSE ReadTileRow(readTile(st, i, j), i + 1, j, fault)


\* ------------------------------------------------------------------------
\* Copy phase: from the cached frame buffer into the caller's frame buffer
\* ------------------------------------------------------------------------

\* FrameBuffer lookup by name
HasSlice(fb, name) == name \in DOMAIN fb

SrcOk(st, from, x, y, i) ==
    /\ from.kind = "heap"
    /\ st.heap[from.blk].live
    /\ ByteIndex(from.type, from.off, x, y, i) \in DOMAIN st.heap[from.blk].data

SrcByte(st, from, x, y, i) ==
    IF SrcOk(st, from, x, y, i)
    THEN st.heap[from.blk].data[ByteIndex(from.type, from.off, x, y, i)]
    ELSE GARBAGE

\* one channel, scan lines lo .. hi, all x of the level: size bytes a pixel
CopyChannel(st, name, lo, hi, oldBuffer, crash) ==
    IF st.status # "run" \/ ~HasSlice(oldBuffer, name) THEN st
    ELSE LET fromSlice == st.cachedBuffer.slices[name]
             toSlice == oldBuffer[name]
             size == pixelTypeSize(toSlice.type)
             badRead == \E y \in lo .. hi, x \in DwX, i \in 0 .. (size - 1) :
                            ~SrcOk(st, fromSlice, x, y, i)
             logged == [st EXCEPT !.copies = @ \o [n \in 1 .. (hi - lo + 1) |-> <<name, lo + n - 1>>],
                                  !.events = @ \o [n \in 1 .. (hi - lo + 1) |-> <<"copy", lo + n - 1, 0>>]]
             toUser == [logged EXCEPT !.user[name] =
                          [y \in DwY |-> [x \in DwX |-> [k \in 1 .. MaxPixelSize |->
                              IF y >= lo /\ y <= hi /\ k <= size
                              THEN SrcByte(st, fromSlice, x, y, k - 1)
                              ELSE @[y][x][k]]]]]
             toHeap == [logged EXCEPT !.heap[toSlice.blk] =
                          IF ~@.live THEN @
                          ELSE [@ EXCEPT !.data = [m \in DOMAIN @ |->
                              LET e == ElemOf(toSlice.type, m)
                                  x == PixelX(toSlice.off, e)
                                  y == PixelY(toSlice.off, e)
                              IN IF y >= lo /\ y <= hi /\ x \in DwX
                                 THEN SrcByte(st, fromSlice, x, y, ByteOf(toSlice.type, m))
                                 ELSE @[m]]]]
         IN IF toSlice.kind = "user"
            THEN (IF badRead THEN Ub(toUser, crash) ELSE toUser)
            ELSE IF toSlice = fromSlice /\ ~badRead
            THEN logged
            ELSE Ub(toHeap, crash)

\* a copy phase that also overwrites the scan lines of the target's channels
\* that the cached frame buffer does not have
RECURSIVE CopyChannelsLoop(_, _, _, _, _, _)
CopyChannelsLoop(st, n, lo, hi, oldBuffer, crash) ==
    IF st.status # "run" \/ n > Len(Names(st.cachedBuffer.slices)) THEN st
    ELSE CopyChannelsLoop(
           CopyChannel(st, Names(st.cachedBuffer.slices)[n], lo, hi, oldBuffer, crash),
           n + 1, lo, hi, oldBuffer, crash)

CopyChannelsAndOthers(st, n, lo, hi, oldBuffer, crash) ==
    LET done == CopyChannelsLoop(st, n, lo, hi, oldBuffer, crash)
    IN [done EXCEPT !.user =
          [c \in DOMAIN @ |->
              IF c \in DOMAIN oldBuffer /\ c \notin DOMAIN st.cachedBuffer.slices
              THEN [y \in DwY |-> [x \in DwX |-> [k \in 1 .. MaxPixelSize |->
                      IF y >= lo /\ y <= hi THEN GARBAGE ELSE @[c][y][x][k]]]]
              ELSE @[c]]]

RECURSIVE CopyChannels(_, _, _, _, _, _)
CopyChannels(st, n, lo, hi, oldBuffer, crash) ==
    IF st.status # "run" \/ n > Len(Names(st.cachedBuffer.slices)) THEN st
    ELSE CopyChannels(
           CopyChannel(st, Names(st.cachedBuffer.slices)[n], lo, hi, oldBuffer, crash),
           n + 1, lo, hi, oldBuffer, crash)

CopyRow(st, lo, hi, oldBuffer, crash) ==
    IF st.status # "run" THEN st
    ELSE IF st.cachedBuffer.ptr # "live"
    THEN CopyChannels(Ub(st, crash), 1, lo, hi, oldBuffer, crash)
    ELSE CopyChannels(st, 1, lo, hi, oldBuffer, crash)

\* ------------------------------------------------------------------------
\* bufferedReadPixels
\* ------------------------------------------------------------------------

\* a loop that fills every tile row it visits
CacheMissAlways(st, j) == TRUE

\* the cache holds another tile row: release the cache, fill it with row j
CacheMiss(st, j) == j # st.cachedTileY

FillRow(st, j, oldBuffer, fault, crash) ==
    LET st1 == DeleteCachedBuffer(st, crash)
        st2 == NewCachedBuffer(st1, oldBuffer, j, fault)
        st3 == InstallOnTiledDecoder(st2, st2.cachedBuffer.slices)
        st4 == ReadTileRow(st3, 0, j, fault)
    IN IF st4.status = "run" THEN [st4 EXCEPT !.fills = Append(@, j)] ELSE st4

\* a pass of the loop that copies the row also when reading its tiles failed
VisitRowCopyingFailedFill(st, j, minY, maxY, oldBuffer, fault, crash) ==
    IF st.status # "run" THEN st
    ELSE LET minYThisRow == Max(minY, TileMinY(j))
             maxYThisRow == Min(maxY, TileMaxY(j))
             st0 == [st EXCEPT !.visited = Append(@, j)]
             st1 == IF CacheMiss(st0, j)
                    THEN FillRow(st0, j, oldBuffer, fault, crash)
                    ELSE [st0 EXCEPT !.hits = Append(@, j)]
         IN IF st1.status = "IoExc"
            THEN [CopyRow([st1 EXCEPT !.status = "run"],
                          minYThisRow, maxYThisRow, oldBuffer, crash)
                    EXCEPT !.status = "IoExc"]
            ELSE CopyRow(st1, minYThisRow, maxYThisRow, oldBuffer, crash)

\* one pass of the loop over the tile rows
VisitRow(st, j, minY, maxY, oldBuffer, fault, crash) ==
    IF st.status # "run" THEN st
    ELSE LET minYThisRow == Max(minY, TileMinY(j))
             maxYThisRow == Min(maxY, TileMaxY(j))
             st0 == [st EXCEPT !.visited = Append(@, j)]
             st1 == IF CacheMiss(st0, j)
                    THEN FillRow(st0, j, oldBuffer, fault, crash)
                    ELSE [st0 EXCEPT !.hits = Append(@, j)]
         IN CopyRow(st1, minYThisRow, maxYThisRow, oldBuffer, crash)

RECURSIVE VisitRows(_, _, _, _, _, _, _, _, _)
VisitRows(st, j, yEnd, yStep, minY, maxY, oldBuffer, fault, crash) ==
    IF j = yEnd THEN st
    ELSE VisitRows(VisitRow(st, j, minY, maxY, oldBuffer, fault, crash),
                   j + yStep, yEnd, yStep, minY, maxY, oldBuffer, fault, crash)

\* a range check that looks at the lower end only
OutsideDataWindowMinOnly(minY, maxY) == minY < DwMinY

OutsideDataWindow(minY, maxY) == minY < DwMinY \/ maxY > DwMaxY

\* a loop that reads the tile rows from the first one up whatever the order
DescendingNever(lo) == FALSE

\* a loop that reads the tile rows from the last one down whatever the order
DescendingAlways(lo) == TRUE

\* the tile rows are read from the last one down
Descending(lo) == lo = "DECREASING_Y"

\* a return that leaves the cached frame buffer on the tiled decoder
RestoreFrameBufferSkipped(done, oldBuffer) ==
    [done EXCEPT !.status = "ok"]

\* restore the user's original frameBuffer
RestoreFrameBuffer(done, oldBuffer) ==
    [done EXCEPT !.tfb = oldBuffer, !.status = "ok"]

TileRowOf(y) == (y - DwMinY) \div tileYSize

bufferedReadPixels(st, lo, scanLine1, scanLine2, fault, crash) ==
    LET minY == Min(scanLine1, scanLine2)
        maxY == Max(scanLine1, scanLine2)
        minDy == TileRowOf(minY)
        maxDy == TileRowOf(maxY)
        yStart == IF Descending(lo) THEN maxDy ELSE minDy
        yEnd == IF Descending(lo) THEN minDy - 1 ELSE maxDy + 1
        yStep == IF Descending(lo) THEN -1 ELSE 1
        oldBuffer == st.tfb
        done == VisitRows(st, yStart, yEnd, yStep, minY, maxY, oldBuffer, fault, crash)
    IN IF OutsideDataWindow(minY, maxY)
       THEN [st EXCEPT !.status = "RangeExc"]
       ELSE IF done.status = "run"
       THEN RestoreFrameBuffer(done, oldBuffer)
       ELSE done


\* ------------------------------------------------------------------------
\* ScanLineInputFile::readPixels: the scan lines stored straight through the
\* installed slices
\* ------------------------------------------------------------------------
scanLineReadPixels(st, fb, scanLine1, scanLine2) ==
    LET minY == Min(scanLine1, scanLine2)
        maxY == Max(scanLine1, scanLine2)
    IN IF OutsideDataWindow(minY, maxY)
       THEN [st EXCEPT !.status = "RangeExc"]
       ELSE IF \E c \in DOMAIN fb : pixelTypeSize(fb[c].type) = 0
       THEN [st EXCEPT !.status = "ArgExc"]
       ELSE [st EXCEPT
               !.status = "ok",
               !.user = [c \in DOMAIN @ |->
                           IF c \in DOMAIN fb
                           THEN [y \in DwY |-> [x \in DwX |-> [k \in 1 .. MaxPixelSize |->
                                   IF y >= minY /\ y <= maxY /\ k <= pixelTypeSize(fb[c].type)
                                   THEN Decoded(c, x, y, fb[c].type)[k]
                                   ELSE @[c][y][x][k]]]]
                           ELSE @[c]]]

\* ------------------------------------------------------------------------
\* State
\* ------------------------------------------------------------------------
VARIABLES
    version,        \* "TILED" or "SCANLINE": the tiled flag of the version read at open time
    lineOrder,      \* the file's line order
    tFile,          \* the TiledInputFile: whether it exists, and its frame buffer
    sFile,          \* the ScanLineInputFile: whether it exists, and its frame buffer
    cachedBuffer,   \* Data::cachedBuffer
    cachedTileY,    \* Data::cachedTileY
    offset,         \* Data::offset
    heap,           \* the storage blocks allocated for the cache
    user,           \* the caller's pixel memory, by channel name
    phase,          \* "open", "closed" (destroyed) or "crashed"
    last,           \* what the last call did: its outcome and trace, and the range
                    \* minY .. maxY of a readPixels that passed the range check
    hist,           \* what the calls so far did (runs of advancing reads, the sweep)
    opsLeft,        \* calls the session may still make
    faultsLeft      \* faults the session may still meet

prog == <<version, lineOrder, tFile, sFile, cachedBuffer, cachedTileY, offset, heap, user, phase>>
vars == <<version, lineOrder, tFile, sFile, cachedBuffer, cachedTileY, offset, heap, user, phase,
          last, hist, opsLeft, faultsLeft>>

LineOrders == {"INCREASING_Y", "DECREASING_Y", "RANDOM_Y"}

isTiled(v) == v = "TILED"

NoDecoder == [exists |-> FALSE, frameBuffer |-> EmptyFrameBuffer]
NewDecoder == [exists |-> TRUE, frameBuffer |-> EmptyFrameBuffer]

TileIds == (0 .. (numXTiles - 1)) \X TileRows

NoCall == [op |-> "none", minY |-> 0, maxY |-> 0, fb |-> EmptyFrameBuffer,
           result |-> "ok", entryFB |-> EmptyFrameBuffer, entryTileY |-> -1,
           fills |-> <<>>, hits |-> <<>>, visited |-> <<>>, tiles |-> <<>>,
           copies |-> <<>>, events |-> <<>>, ub |-> FALSE, decoder |-> "none",
           invalidated |-> -1]

NoHist == [prevValid |-> FALSE, prevMin |-> 0, prevMax |-> 0,
           filledO |-> {}, refillO |-> FALSE,
           filledA |-> {}, refillA |-> FALSE,
           sweep |-> 0, sweepFills |-> 0, sweepTiles |-> [t \in TileIds |-> 0],
           invalidated |-> -1, lastTileRow |-> -1]

\* InputFile::InputFile, after a construction that did not throw
Init ==
    /\ version \in {"TILED", "SCANLINE"}
    /\ lineOrder \in (IF isTiled(version) THEN LineOrders ELSE {"INCREASING_Y"})
    /\ tFile = (IF isTiled(version) THEN NewDecoder ELSE NoDecoder)
    /\ sFile = (IF isTiled(version) THEN NoDecoder ELSE NewDecoder)
    /\ cachedBuffer = NullBuffer
    /\ cachedTileY = -1
    /\ offset = 0
    /\ heap = FreshHeap
    /\ user = FreshUser
    /\ phase = "open"
    /\ last = NoCall
    /\ hist = NoHist
    /\ opsLeft = MaxOps
    /\ faultsLeft = MaxFaults

CanCall == phase = "open" /\ opsLeft > 0

\* the working state of a call, from the variables
Work ==
    [cachedBuffer |-> cachedBuffer, cachedTileY |-> cachedTileY, offset |-> offset,
     tfb |-> tFile.frameBuffer, heap |-> heap, user |-> user,
     status |-> "run", ub |-> FALSE,
     fills |-> <<>>, hits |-> <<>>, visited |-> <<>>, tiles |-> <<>>, copies |-> <<>>,
     events |-> <<>>]

Thrown(status) == status \notin {"ok", "crash", "run"}


\* ------------------------------------------------------------------------
\* History of a session (not program state): the current run of successful
\* reads whose ranges advance, and the one-scan-line-a-call sweep
\* ------------------------------------------------------------------------
SeqToSet(q) == {q[n] : n \in DOMAIN q}

\* both ends of the range move on in the direction of the line order
Advances(lo, prevMin, prevMax, minY, maxY) ==
    CASE lo = "DECREASING_Y" -> minY <= prevMin /\ maxY <= prevMax
      [] lo = "INCREASING_Y" -> minY >= prevMin /\ maxY >= prevMax
      [] OTHER -> FALSE

\* the range starts no earlier than the tile row the previous range ended in
StartsAtOrAfterLastRow(lo, prevMin, prevMax, minY, maxY) ==
    IF lo = "DECREASING_Y"
    THEN TileRowOf(maxY) <= TileRowOf(prevMin)
    ELSE TileRowOf(minY) >= TileRowOf(prevMax)

\* the scan line the sweep reads after k scan lines
SweepLine(lo, k) == IF lo = "DECREASING_Y" THEN DwMaxY - k ELSE DwMinY + k

NumScanLines == DwMaxY - DwMinY + 1

BrokenSweep(h) ==
    [h EXCEPT !.sweep = -1, !.sweepFills = 0, !.sweepTiles = [t \in TileIds |-> 0]]

NoRun(h) ==
    [h EXCEPT !.prevValid = FALSE, !.prevMin = 0, !.prevMax = 0,
              !.filledO = {}, !.refillO = FALSE, !.filledA = {}, !.refillA = FALSE]

CountOf(q, v) == Cardinality({n \in DOMAIN q : q[n] = v})

\* the tile rows a call visited and did not find in the cache, in order
Misses(visited, hits) == SelectSeq(visited, LAMBDA j : j \notin SeqToSet(hits))

\* lastTileRow: the tile row of the tiles decoded last, as long as no other
\* tile row was to be filled and no setFrameBuffer invalidated the cache
LastTileRowAfter(h, res) ==
    LET missed == Misses(res.visited, res.hits)
    IN IF missed = <<>> THEN h.lastTileRow
       ELSE IF \E n \in DOMAIN res.tiles : res.tiles[n][2] = missed[Len(missed)]
       THEN missed[Len(missed)]
       ELSE -1

HistAfterRead(h, lo, res, scanLine1, scanLine2) ==
    LET minY == Min(scanLine1, scanLine2)
        maxY == Max(scanLine1, scanLine2)
        filled == SeqToSet(res.fills)
        advO == h.prevValid /\ Advances(lo, h.prevMin, h.prevMax, minY, maxY)
        advA == advO /\ StartsAtOrAfterLastRow(lo, h.prevMin, h.prevMax, minY, maxY)
        onSweep == h.sweep >= 0 /\ h.sweep < NumScanLines
                   /\ scanLine1 = scanLine2 /\ scanLine1 = SweepLine(lo, h.sweep)
        run == [h EXCEPT !.invalidated = -1, !.prevValid = TRUE, !.prevMin = minY, !.prevMax = maxY,
                         !.filledO = IF advO THEN @ \cup filled ELSE filled,
                         !.refillO = advO /\ (h.filledO \cap filled) # {},
                         !.filledA = IF advA THEN @ \cup filled ELSE filled,
                         !.refillA = advA /\ (h.filledA \cap filled) # {}]
        seen == [h EXCEPT !.lastTileRow = LastTileRowAfter(h, res)]
    IN IF res.status = "RangeExc" THEN h
       ELSE IF res.status # "ok"
       THEN [BrokenSweep(NoRun(seen)) EXCEPT !.invalidated = -1]
       ELSE IF onSweep
       THEN [run EXCEPT !.sweep = @ + 1,
                        !.sweepFills = @ + Len(res.fills),
                        !.sweepTiles = [t \in TileIds |-> @[t] + CountOf(res.tiles, t)],
                        !.lastTileRow = seen.lastTileRow]
       ELSE [BrokenSweep(run) EXCEPT !.lastTileRow = seen.lastTileRow]

\* a frame buffer that names a channel that is not in the file's header or
\* whose type is not the header's type of that channel
NotAsInHeader(fb) ==
    \E name \in DOMAIN fb :
        name \notin DOMAIN HeaderChannels \/ fb[name].type # HeaderChannels[name]

\* invalidated: the tile row that was cached when the last setFrameBuffer
\* installed such a frame buffer, until the next readPixels
HistAfterSetFrameBuffer(h, fb, cached) ==
    [(IF h.sweep = 0 THEN NoRun(h) ELSE BrokenSweep(NoRun(h)))
       EXCEPT !.invalidated = IF NotAsInHeader(fb) THEN cached ELSE -1,
              !.lastTileRow = IF NotAsInHeader(fb) THEN -1 ELSE @]

\* ------------------------------------------------------------------------
\* Operations of InputFile
\* ------------------------------------------------------------------------

\* a comparison that passes over the channels the file does not have
TypesDifferAmongPresent(fb) ==
    \E name \in DOMAIN fb :
        /\ name \in DOMAIN HeaderChannels
        /\ HeaderChannels[name] # fb[name].type

\* the new frame buffer names a channel the file does not have, or one of
\* another type than the file's
TypesDiffer(fb) ==
    \E name \in DOMAIN fb :
        \/ name \notin DOMAIN HeaderChannels
        \/ HeaderChannels[name] # fb[name].type

SetFrameBuffer(fb) ==
    /\ CanCall
    /\ IF isTiled(version)
       THEN /\ cachedTileY' = (IF TypesDiffer(fb) THEN -1 ELSE cachedTileY)
            /\ tFile' = [tFile EXCEPT !.frameBuffer = fb]
            /\ sFile' = sFile
       ELSE /\ sFile' = [sFile EXCEPT !.frameBuffer = fb]
            /\ UNCHANGED <<cachedTileY, tFile>>
    /\ last' = [NoCall EXCEPT !.op = "setFrameBuffer", !.fb = fb,
                              !.entryFB = (IF isTiled(version) THEN tFile.frameBuffer
                                           ELSE sFile.frameBuffer),
                              !.entryTileY = cachedTileY,
                              !.decoder = (IF isTiled(version) THEN "tFile" ELSE "sFile")]
    /\ hist' = HistAfterSetFrameBuffer(hist, fb, cachedTileY)
    /\ opsLeft' = opsLeft - 1
    /\ UNCHANGED <<version, lineOrder, cachedBuffer, offset, heap, user, phase, faultsLeft>>

FrameBufferGet ==
    /\ CanCall
    /\ last' = [NoCall EXCEPT !.op = "frameBuffer",
                              !.fb = (IF isTiled(version) THEN tFile.frameBuffer
                                      ELSE sFile.frameBuffer),
                              !.decoder = (IF isTiled(version) THEN "tFile" ELSE "sFile")]
    /\ opsLeft' = opsLeft - 1
    /\ UNCHANGED <<prog, hist, faultsLeft>>

ReadLog(res, scanLine1, scanLine2, dec) ==
    [NoCall EXCEPT !.op = "readPixels",
                   !.minY = (IF res.status = "RangeExc" THEN 0 ELSE Min(scanLine1, scanLine2)),
                   !.maxY = (IF res.status = "RangeExc" THEN 0 ELSE Max(scanLine1, scanLine2)),
                   !.result = res.status,
                   !.entryFB = (IF isTiled(version) THEN tFile.frameBuffer
                                ELSE sFile.frameBuffer),
                   !.entryTileY = cachedTileY,
                   !.fills = res.fills, !.hits = res.hits, !.visited = res.visited,
                   !.tiles = res.tiles, !.copies = res.copies, !.events = res.events,
                   !.ub = res.ub,
                   !.decoder = dec,
                   !.invalidated = (IF res.status = "RangeExc" THEN -1 ELSE hist.invalidated)]

\* the faults a call can meet: those of the tile rows of its range
FaultsMet(scanLine1, scanLine2) ==
    {f \in Faults :
        \/ f = NoFault
        \/ /\ faultsLeft > 0
           /\ ~OutsideDataWindow(Min(scanLine1, scanLine2), Max(scanLine1, scanLine2))
           /\ f.row >= TileRowOf(Min(scanLine1, scanLine2))
           /\ f.row <= TileRowOf(Max(scanLine1, scanLine2))
           /\ f.kind = "arr" => f.idx <= Len(Names(tFile.frameBuffer))}

ReadPixels(scanLine1, scanLine2) ==
    /\ CanCall
    /\ IF isTiled(version)
       THEN \E f \in FaultsMet(scanLine1, scanLine2) :
            \E res0 \in {bufferedReadPixels(Work, lineOrder, scanLine1, scanLine2, f, FALSE)} :
            \E crash \in (IF res0.ub THEN BOOLEAN ELSE {FALSE}) :
            \E res \in {IF crash
                        THEN bufferedReadPixels(Work, lineOrder, scanLine1, scanLine2, f, TRUE)
                        ELSE res0} :
                      /\ cachedBuffer' = res.cachedBuffer
                      /\ cachedTileY' = res.cachedTileY
                      /\ offset' = res.offset
                      /\ tFile' = [tFile EXCEPT !.frameBuffer = res.tfb]
                      /\ heap' = res.heap
                      /\ user' = res.user
                      /\ phase' = (IF res.status = "crash" THEN "crashed" ELSE phase)
                      /\ last' = ReadLog(res, scanLine1, scanLine2, "tFile")
                      /\ hist' = HistAfterRead(hist, lineOrder, res, scanLine1, scanLine2)
                      /\ faultsLeft' = (IF res.status \in {"bad_alloc", "IoExc"}
                                        THEN faultsLeft - 1 ELSE faultsLeft)
                      /\ sFile' = sFile
       ELSE \E res \in {scanLineReadPixels(Work, sFile.frameBuffer, scanLine1, scanLine2)} :
               /\ user' = res.user
               /\ last' = ReadLog(res, scanLine1, scanLine2, "sFile")
               /\ UNCHANGED <<cachedBuffer, cachedTileY, offset, tFile, sFile, heap,
                              phase, hist, faultsLeft>>
    /\ opsLeft' = opsLeft - 1
    /\ UNCHANGED <<version, lineOrder>>

\* readPixels (scanLine) is readPixels (scanLine, scanLine)
ReadPixels1(scanLine) == ReadPixels(scanLine, scanLine)

\* a rawPixelData that goes to the scan-line decoder whatever the mode
RawPixelDataUnchecked(firstScanLine) ==
    /\ CanCall
    /\ last' = [NoCall EXCEPT !.op = "rawPixelData", !.decoder = "sFile",
                              !.result = (IF OutsideDataWindow(firstScanLine, firstScanLine)
                                          THEN "RangeExc" ELSE "ok")]
    /\ opsLeft' = opsLeft - 1
    /\ UNCHANGED <<prog, hist, faultsLeft>>

RawPixelData(firstScanLine) ==
    /\ CanCall
    /\ last' = IF isTiled(version)
               THEN [NoCall EXCEPT !.op = "rawPixelData", !.result = "ModeExc"]
               ELSE [NoCall EXCEPT !.op = "rawPixelData", !.decoder = "sFile",
                                   !.result = (IF OutsideDataWindow(firstScanLine, firstScanLine)
                                               THEN "RangeExc" ELSE "ok")]
    /\ opsLeft' = opsLeft - 1
    /\ UNCHANGED <<prog, hist, faultsLeft>>

\* a rawTileData that goes to the tiled decoder whatever the mode
RawTileDataUnchecked(dx, dy) ==
    /\ CanCall
    /\ last' = [NoCall EXCEPT !.op = "rawTileData", !.decoder = "tFile"]
    /\ opsLeft' = opsLeft - 1
    /\ UNCHANGED <<prog, hist, faultsLeft>>

RawTileData(dx, dy) ==
    /\ CanCall
    /\ last' = IF ~isTiled(version)
               THEN [NoCall EXCEPT !.op = "rawTileData", !.result = "ModeExc"]
               ELSE [NoCall EXCEPT !.op = "rawTileData", !.decoder = "tFile"]
    /\ opsLeft' = opsLeft - 1
    /\ UNCHANGED <<prog, hist, faultsLeft>>

TFileAccessor ==
    /\ CanCall
    /\ last' = IF ~isTiled(version)
               THEN [NoCall EXCEPT !.op = "tFile", !.result = "ModeExc"]
               ELSE [NoCall EXCEPT !.op = "tFile"]
    /\ opsLeft' = opsLeft - 1
    /\ UNCHANGED <<prog, hist, faultsLeft>>

\* InputFile::~InputFile: delete _data
Destroy ==
    /\ phase = "open"
    /\ \E crash \in (IF cachedBuffer.ptr = "freed" THEN BOOLEAN ELSE {FALSE}) :
         \E res \in {DeleteCachedBuffer(Work, crash)} :
            /\ heap' = res.heap
            /\ cachedBuffer' = res.cachedBuffer
            /\ phase' = (IF res.status = "crash" THEN "crashed" ELSE "closed")
            /\ last' = [NoCall EXCEPT !.op = "destroy", !.ub = res.ub,
                                      !.result = (IF res.status = "crash" THEN "crash" ELSE "ok")]
    /\ tFile' = NoDecoder
    /\ sFile' = NoDecoder
    /\ UNCHANGED <<version, lineOrder, cachedTileY, offset, user, hist, opsLeft, faultsLeft>>

Next ==
    \/ \E fb \in UserFrameBuffers : SetFrameBuffer(fb)
    \/ FrameBufferGet
    \/ \E y1 \in ScanLineArgs, y2 \in ScanLineArgs : ReadPixels(y1, y2)
    \/ \E y \in ScanLineArgs : ReadPixels1(y)
    \/ \E y \in ScanLineArgs : RawPixelData(y)
    \/ \E t \in TileIds : RawTileData(t[1], t[2])
    \/ TFileAccessor
    \/ Destroy

Spec == Init /\ [][Next]_vars

\* ------------------------------------------------------------------------
\* Longer sessions on a tiled file: setFrameBuffer and readPixels only, no
\* faults, frame buffers with no channel and with the file's channel in its
\* own and another type
\* ------------------------------------------------------------------------
LongFrameBuffers == {EmptyFrameBuffer, FbA, FbAFloat}

InitLong ==
    /\ version = "TILED"
    /\ lineOrder \in LineOrders
    /\ tFile = NewDecoder
    /\ sFile = NoDecoder
    /\ cachedBuffer = NullBuffer
    /\ cachedTileY = -1
    /\ offset = 0
    /\ heap = FreshHeap
    /\ user = FreshUser
    /\ phase = "open"
    /\ last = NoCall
    /\ hist = NoHist
    /\ opsLeft = MaxLongOps
    /\ faultsLeft = 0

NextLong ==
    \/ \E fb \in LongFrameBuffers : SetFrameBuffer(fb)
    \/ \E y1 \in DwY : \E y2 \in y1 .. DwMaxY : ReadPixels(y1, y2)

SpecLong == InitLong /\ [][NextLong]_vars

\* ------------------------------------------------------------------------
\* Properties
\* ------------------------------------------------------------------------

\* C1: for a tiled file, a readPixels call that returns successfully leaves
\* the frame buffer installed on the tiled decoder equal to the one that was
\* installed when the call was entered, however many tile rows it filled.
C1_SuccessfulReadRestoresFrameBuffer ==
    (isTiled(version) /\ last.op = "readPixels" /\ last.result = "ok")
        => tFile.frameBuffer = last.entryFB

\* a successful call that filled two tile rows for a frame buffer with slices
C1_Witness ==
    /\ isTiled(version) /\ last.op = "readPixels" /\ last.result = "ok"
    /\ Len(last.fills) >= 2
    /\ last.entryFB # EmptyFrameBuffer
    /\ tFile.frameBuffer = last.entryFB

\* C2: for a tiled file, a readPixels call that fails (range error, unknown
\* pixel type, allocation failure, tile decode error) leaves the frame buffer
\* installed on the tiled decoder equal to the one installed before the call.
C2_FailedReadRestoresFrameBuffer ==
    (isTiled(version) /\ last.op = "readPixels" /\ Thrown(last.result))
        => tFile.frameBuffer = last.entryFB

\* C3: for a tiled file and any (y1, y2), in either order, whose smaller end
\* is below the data window or whose larger end is above it, readPixels
\* fails with a range error and changes nothing: no byte of the target, not
\* the cached row index nor the cache storage, nor the installed frame
\* buffer, and no tile is decoded.
C3_OutOfRangeChangesNothing ==
    [][\A y1 \in ScanLineArgs, y2 \in ScanLineArgs :
          ( /\ isTiled(version)
            /\ \/ (IF y1 <= y2 THEN y1 ELSE y2) < DwMinY
               \/ (IF y1 <= y2 THEN y2 ELSE y1) > DwMaxY
            /\ ReadPixels(y1, y2) )
          => /\ last'.result = "RangeExc"
             /\ last'.tiles = <<>> /\ last'.copies = <<>> /\ last'.fills = <<>>
             /\ UNCHANGED prog]_vars

\* a range error met while a tile row is cached and a frame buffer installed
C3_Witness ==
    /\ isTiled(version) /\ last.op = "readPixels" /\ last.result = "RangeExc"
    /\ cachedTileY # -1 /\ cachedBuffer.ptr = "live"
    /\ tFile.frameBuffer # EmptyFrameBuffer

\* C4: on a tiled file with N tile rows and a fixed frame buffer, a fresh
\* session that reads every scan line of the data window, one a call, in the
\* direction of the line order (ascending unless DECREASING_Y) fills N tile
\* rows in total and decodes every tile of level 0 exactly once.
C4_SweepFillsEachRowOnce ==
    (isTiled(version) /\ hist.sweep = NumScanLines)
        => /\ hist.sweepFills = numYTiles
           /\ \A t \in TileIds : hist.sweepTiles[t] = 1

\* a finished sweep into a frame buffer with a slice, against the y order
\* of the tile rows in the file
C4_Witness ==
    /\ isTiled(version) /\ hist.sweep = NumScanLines
    /\ lineOrder = "DECREASING_Y"
    /\ tFile.frameBuffer # EmptyFrameBuffer
    /\ last.op = "readPixels" /\ last.minY = DwMinY /\ last.maxY = DwMinY

\* C5: in tiled mode a setFrameBuffer (fb) whose fb names a channel absent
\* from the header, or of another type than the header's, sets the cached
\* row index to none and installs fb; the next readPixels that visits the
\* tile row that was cached does not hit the cache there, and fills that row
\* if it succeeds.
C5_MismatchInvalidatesCache ==
    /\ (isTiled(version) /\ last.op = "setFrameBuffer" /\ NotAsInHeader(last.fb))
          => (cachedTileY = -1 /\ tFile.frameBuffer = last.fb)
    /\ (isTiled(version) /\ last.op = "readPixels" /\ last.invalidated # -1
            /\ last.invalidated \in SeqToSet(last.visited))
          => /\ last.invalidated \notin SeqToSet(last.hits)
             /\ last.result = "ok" => last.invalidated \in SeqToSet(last.fills)

\* a read that fills again the row that was cached before the setFrameBuffer
C5_Witness ==
    /\ isTiled(version) /\ last.op = "readPixels" /\ last.result = "ok"
    /\ last.invalidated # -1
    /\ last.fills = <<last.invalidated>>
    /\ last.entryTileY = -1

\* C6: rawPixelData on a tiled file, and rawTileData and the tFile accessor
\* on a scan-line file, fail with a mode error, call no decoder and leave
\* the session state as it was.
C6_WrongModeChangesNothing ==
    [][( \/ isTiled(version) /\ \E y \in ScanLineArgs : RawPixelData(y)
         \/ ~isTiled(version) /\ \E t \in TileIds : RawTileData(t[1], t[2])
         \/ ~isTiled(version) /\ TFileAccessor )
       => /\ last'.result = "ModeExc"
          /\ last'.decoder = "none"
          /\ UNCHANGED <<prog, hist, faultsLeft>>]_vars

\* a mode error on a tiled file whose cache holds a tile row
C6_Witness ==
    /\ isTiled(version) /\ last.op = "rawPixelData" /\ last.result = "ModeExc"
    /\ cachedTileY # -1 /\ cachedBuffer.ptr = "live"

\* C7: on a tiled file with a fixed frame buffer, a successful readPixels
\* (y1, y2) that follows at once a successful readPixels (y1, y2) leaves
\* every byte of the target buffer as the first call left it.
C7_RepeatedReadIsIdempotent ==
    [][( /\ isTiled(version)
         /\ last.op = "readPixels" /\ last.result = "ok"
         /\ opsLeft' = opsLeft - 1
         /\ last'.op = "readPixels" /\ last'.result = "ok"
         /\ last'.minY = last.minY /\ last'.maxY = last.maxY )
       => \A c \in DOMAIN tFile.frameBuffer :
              tFile.frameBuffer[c].kind = "user" => user'[c] = user[c]]_vars

\* the tile rows that hold scan lines of minY .. maxY
RowsOfRange(minY, maxY) == {(y - DwMinY) \div TileYSize : y \in minY .. maxY}

\* C8: a successful readPixels on a tiled file visits exactly the tile rows
\* (minY - dataWindow.minY) / th .. (maxY - dataWindow.minY) / th, all of them
\* in 0 .. N-1, and copies every scan line of minY .. maxY to the target
\* exactly once, over the whole width of the data window and with the value
\* decoded for (x, y); it writes no scan line outside minY .. maxY.
C8_ReadCopiesRangeOnceWithDecodedValues ==
    (isTiled(version) /\ last.op = "readPixels" /\ last.result = "ok")
    => /\ SeqToSet(last.visited) = RowsOfRange(last.minY, last.maxY)
       /\ Len(last.visited) = Cardinality(RowsOfRange(last.minY, last.maxY))
       /\ SeqToSet(last.visited) \subseteq 0 .. (numYTiles - 1)
       /\ \A c \in DOMAIN last.entryFB : \A y \in DwY :
              CountOf(last.copies, <<c, y>>) = (IF y >= last.minY /\ y <= last.maxY THEN 1 ELSE 0)
       /\ \A c \in DOMAIN last.entryFB : \A y \in last.minY .. last.maxY : \A x \in DwX :
              \A k \in 1 .. pixelTypeSize(last.entryFB[c].type) :
                  last.entryFB[c].kind = "user"
                      => user[c][y][x][k] = Decoded(c, x, y, last.entryFB[c].type)[k]

\* C9: on a tiled file with a fixed frame buffer, over successful readPixels
\* calls whose ranges advance in the direction of the line order (minY and
\* maxY each no smaller than the call before for INCREASING_Y, no larger for
\* DECREASING_Y), no tile row is filled a second time.
C9_AdvancingReadsNeverRefill == ~hist.refillO

\* C9 with the further condition that each call's range starts in or after
\* (for DECREASING_Y: in or before) the tile row in which the range of the
\* call before ended: then no tile row is filled a second time.
C9_AdvancingFromLastRowNeverRefill == ~hist.refillA

\* a run of such calls that filled every tile row, the last call finding its
\* first tile row in the cache and filling the next
C9_Witness ==
    /\ isTiled(version) /\ lineOrder \in {"INCREASING_Y", "DECREASING_Y"}
    /\ hist.prevValid /\ hist.filledA = TileRows
    /\ last.op = "readPixels" /\ Len(last.hits) = 1 /\ Len(last.fills) = 1
    /\ last.entryFB # EmptyFrameBuffer

\* C10: the number of tile rows a successful readPixels fills is the number
\* of tile rows of its range, less one exactly when the first row it visits
\* (the row of minY, or of maxY for DECREASING_Y) is the row cached when the
\* call was entered; a range of an INCREASING_Y file that starts in the
\* cached row and reaches k rows further fills k rows.
C10_FillsAreVisitedRowsLessCachedFirst ==
    (isTiled(version) /\ last.op = "readPixels" /\ last.result = "ok")
    => LET first == IF lineOrder = "DECREASING_Y"
                    THEN (last.maxY - DwMinY) \div TileYSize
                    ELSE (last.minY - DwMinY) \div TileYSize
       IN Len(last.fills) = Cardinality(RowsOfRange(last.minY, last.maxY))
                            - (IF first = last.entryTileY THEN 1 ELSE 0)

\* a range that starts in the cached row and reaches one row further
C10_Witness ==
    /\ isTiled(version) /\ lineOrder = "INCREASING_Y"
    /\ last.op = "readPixels" /\ last.result = "ok"
    /\ last.entryFB # EmptyFrameBuffer
    /\ last.entryTileY = 0 /\ last.minY = DwMinY + 1 /\ last.maxY = DwMaxY
    /\ last.hits = <<0>> /\ Len(last.fills) = Cardinality(RowsOfRange(last.minY, last.maxY)) - 1

\* C11: within one readPixels call on a tiled file the tile rows are visited
\* one after the other from maxDy down to minDy when the line order is
\* DECREASING_Y and from minDy up to maxDy for every other line order; after
\* a successful call the cached row index is minDy for DECREASING_Y and maxDy
\* otherwise.
C11_RowsVisitedInLineOrder ==
    (isTiled(version) /\ last.op = "readPixels" /\ last.result # "RangeExc")
    => LET minDy == (last.minY - DwMinY) \div TileYSize
           maxDy == (last.maxY - DwMinY) \div TileYSize
           down == lineOrder = "DECREASING_Y"
       IN /\ Len(last.visited) >= 1
          /\ last.visited[1] = (IF down THEN maxDy ELSE minDy)
          /\ \A n \in 1 .. (Len(last.visited) - 1) :
                 last.visited[n + 1] = last.visited[n] + (IF down THEN -1 ELSE 1)
          /\ last.result = "ok"
                 => /\ Len(last.visited) = maxDy - minDy + 1
                    /\ cachedTileY = (IF down THEN minDy ELSE maxDy)

\* a successful call on a DECREASING_Y file that visited the last tile row
\* and then the first
C11_Witness ==
    /\ isTiled(version) /\ lineOrder = "DECREASING_Y"
    /\ last.op = "readPixels" /\ last.result = "ok"
    /\ last.visited = <<1, 0>> /\ cachedTileY = 0
    /\ last.entryFB # EmptyFrameBuffer

\* the tiles of row j in a sequence of readTile calls, in the order called
TilesOfRow(tiles, j) == SelectSeq(tiles, LAMBDA t : t[2] = j)

\* the readTile calls of one readPixels call, given its log l
ReadTileCallsPerRow(l) ==
    \A j \in SeqToSet(l.visited) :
        /\ j \in SeqToSet(l.hits) => TilesOfRow(l.tiles, j) = <<>>
        /\ j \in SeqToSet(l.fills)
              => TilesOfRow(l.tiles, j) = [i \in 1 .. numXTiles |-> <<i - 1, j>>]
        /\ \A n \in DOMAIN TilesOfRow(l.tiles, j) : TilesOfRow(l.tiles, j)[n] = <<n - 1, j>>

\* C12: when readPixels visits tile row j and the cached row index is j, no
\* readTile call is made for that row; otherwise readTile (i, j, 0) is called
\* once for each i from 0 to numXTiles(0) - 1 (up to the tile that fails, if
\* one does) and j is the cached row index once the row is filled.  Hence a
\* call does not decode the tiles of the row that was decoded last unless
\* another row was to be filled, or setFrameBuffer invalidated the cache, in
\* between.
C12_ReadTileOncePerTileOfMissedRow ==
    [][(isTiled(version) /\ opsLeft' = opsLeft - 1 /\ last'.op = "readPixels")
       => /\ ReadTileCallsPerRow(last')
          /\ (last'.fills # <<>> /\ last'.result = "ok"
                 /\ last'.visited[Len(last'.visited)] \in SeqToSet(last'.fills))
               => cachedTileY' = last'.fills[Len(last'.fills)]
          /\ \A n \in DOMAIN last'.visited :
                 (last'.visited[n] \in SeqToSet(last'.hits))
                     <=> (n = 1 /\ last'.visited[n] = cachedTileY)
          /\ (hist.lastTileRow # -1 /\ Misses(last'.visited, last'.hits) # <<>>)
               => Misses(last'.visited, last'.hits)[1] # hist.lastTileRow]_vars

\* a call that found its first tile row in the cache and read every tile of
\* the next row
C12_Witness ==
    /\ isTiled(version) /\ last.op = "readPixels" /\ last.result = "ok"
    /\ last.hits = <<0>> /\ last.fills = <<1>>
    /\ last.tiles = [i \in 1 .. numXTiles |-> <<i - 1, 1>>]
    /\ hist.lastTileRow = 1 /\ cachedTileY = 1
    /\ last.entryFB # EmptyFrameBuffer

\* the storage blocks that are allocated, and those the cache entry holds
LiveBlocks == {b \in BlockIds : heap[b].live}
CachedBlocks ==
    IF cachedBuffer.ptr = "live"
    THEN {cachedBuffer.slices[c].blk : c \in DOMAIN cachedBuffer.slices}
    ELSE {}

\* C13: in every reachable state at most one tile row's storage is allocated
\* for the cache (the storage of the one cache entry, a block of one tile row
\* a channel): the entry before was released before the new one was
\* allocated, also when setFrameBuffer had invalidated it; at the end of the
\* session every block allocated has been released, and none twice.
C13_OneRowOfStorageReleasedOnce ==
    /\ phase = "open" => LiveBlocks = CachedBlocks
    /\ \A b \in LiveBlocks : Len(heap[b].data) <= tileRowSize * MaxPixelSize
    /\ last.op = "destroy" => (LiveBlocks = {} /\ ~last.ub)

\* the channels the copies of a call were made for
CopiedNames(l) == {l.copies[n][1] : n \in DOMAIN l.copies}

C15_FailedFillReleasesEntry ==
    (isTiled(version) /\ last.op = "readPixels"
        /\ last.result \in {"ArgExc", "bad_alloc", "IoExc"})
    => (cachedTileY = -1 /\ LiveBlocks = {})

\* the readTile calls for tile row j among the first n events of a call
TilesBefore(events, j, n) ==
    Cardinality({m \in 1 .. (n - 1) : events[m][1] = "tile" /\ events[m][2] = j})

\* C16: for each tile row a readPixels call fills, no scan line of the row is
\* copied to the target before every tile of the row has been decoded; when
\* decoding a tile of the row fails, the error is raised with no byte of
\* that row copied.
C16_CopyAfterWholeRowDecoded ==
    (isTiled(version) /\ last.op = "readPixels" /\ last.result # "RangeExc")
    => /\ \A n \in DOMAIN last.events :
              ( /\ last.events[n][1] = "copy"
                /\ (last.events[n][2] - DwMinY) \div TileYSize \notin SeqToSet(last.hits) )
              => TilesBefore(last.events, (last.events[n][2] - DwMinY) \div TileYSize, n)
                     = numXTiles
       /\ last.result = "IoExc"
              => \A n \in DOMAIN last.events :
                     last.events[n][1] = "copy"
                         => (last.events[n][2] - DwMinY) \div TileYSize
                                # last.visited[Len(last.visited)]

\* a call that filled and copied one tile row and then failed on the second
\* tile of the next row
C16_Witness ==
    /\ isTiled(version) /\ last.op = "readPixels" /\ last.result = "IoExc"
    /\ Len(last.visited) = 2 /\ Len(last.fills) = 1
    /\ Len(last.tiles) = numXTiles + 1
    /\ last.copies # <<>>
    /\ last.entryFB # EmptyFrameBuffer

\* exactly one decoder exists, the one for the mode, and the last call went
\* to no other
OneDecoderForMode ==
    phase = "open"
    => /\ tFile.exists # sFile.exists
       /\ tFile.exists <=> version = "TILED"
       /\ last.decoder = "tFile" => (tFile.exists /\ version = "TILED")
       /\ last.decoder = "sFile" => (sFile.exists /\ version = "SCANLINE")
       /\ (last.op \in {"setFrameBuffer", "frameBuffer", "readPixels"})
              => last.decoder = (IF version = "TILED" THEN "tFile" ELSE "sFile")
       /\ (last.op \in {"rawPixelData", "rawTileData"} /\ last.result # "ModeExc")
              => last.decoder = (IF version = "TILED" THEN "tFile" ELSE "sFile")

\* C17: after construction, in every state of a session exactly one of the
\* scan-line decoder and the tiled decoder exists, the one that agrees with
\* the tiled flag of the version; no operation, failed ones included,
\* changes the mode or which decoder exists; every pixel-access call goes to
\* the decoder that exists.
C17_OneDecoderNeverChanges ==
    /\ []OneDecoderForMode
    /\ [][ /\ version' = version
           /\ phase' = "open" => (tFile'.exists = tFile.exists /\ sFile'.exists = sFile.exists)
         ]_vars

\* a failed readPixels on a tiled file and a mode error on a scan-line file
\* are among the states: here the former
C17_Witness ==
    /\ phase = "open" /\ version = "TILED" /\ tFile.exists /\ ~sFile.exists
    /\ last.op = "readPixels" /\ last.result = "IoExc" /\ last.decoder = "tFile"
    /\ cachedTileY # -1

\* the storage of a cached slice holds the decoded value of every pixel of
\* tile row j of channel c
HoldsDecodedRow(c, s, j) ==
    /\ s.kind = "heap"
    /\ heap[s.blk].live
    /\ \A y \in TileMinY(j) .. TileMaxY(j), x \in DwX, i \in 0 .. (pixelTypeSize(s.type) - 1) :
          /\ ByteIndex(s.type, s.off, x, y, i) \in DOMAIN heap[s.blk].data
          /\ heap[s.blk].data[ByteIndex(s.type, s.off, x, y, i)] = Decoded(c, x, y, s.type)[i + 1]

\* C18: whenever the cached tile row index is j, the cache entry exists and
\* its storage holds the fully decoded data of tile row j for every channel
\* of the frame buffer the entry was built for (so that a read after a failed
\* fill cannot be served as a hit from incomplete storage).
C18_CachedRowIsFullyDecoded ==
    (phase = "open" /\ tFile.exists /\ cachedTileY # -1)
    => /\ cachedBuffer.ptr = "live"
       /\ \A c \in DOMAIN cachedBuffer.slices :
             HoldsDecodedRow(c, cachedBuffer.slices[c], cachedTileY)


\* C19: on a cache hit, every channel copied has the same element type in
\* the cached slice and in the target slice: a readPixels that finds its
\* first tile row in a live cache entry finds, for each channel that entry
\* and the current frame buffer both have, the type the entry was built with
\* equal to the type of the frame buffer's slice.
C19_HitCopiesBetweenEqualTypes ==
    [][ ( /\ last'.op = "readPixels"
          /\ last'.hits # <<>>
          /\ cachedBuffer.ptr = "live" )
        => \A c \in (DOMAIN cachedBuffer.slices) \cap (DOMAIN tFile.frameBuffer) :
              c \in CopiedNames(last')
                  => cachedBuffer.slices[c].type = tFile.frameBuffer[c].type ]_vars


\* C20: no cache storage block and no cached frame buffer object is released
\* twice, and the session never holds a reference to a released cache entry:
\* between calls the cached frame buffer pointer is null or points to an
\* object that exists, whose slices' storage is allocated, and the release
\* at the end of the session releases nothing a second time.  This covers
\* the states after a failed allocation of the new frame buffer object or
\* of a channel's storage that follows the release of the entry before.
C20_NoReleasedEntryHeldOrReleasedAgain ==
    /\ phase = "open" => cachedBuffer.ptr # "freed"
    /\ (phase = "open" /\ cachedBuffer.ptr = "live") => CachedBlocks \subseteq LiveBlocks
    /\ last.op = "destroy" => ~last.ub

====
